---- MODULE Spec2Model ----
(***************************************************************************)
(* State machine of the festival registration form (src/App.tsx): the      *)
(* React component App, its five useState cells, its event handlers and    *)
(* the asynchronous continuation of handleSubmit.                          *)
(***************************************************************************)
EXTENDS Integers, Sequences, FiniteSets, TLC

(***************************************************************************)
(* Values                                                                  *)
(***************************************************************************)

\* JavaScript null (scriptFile: null) and undefined (a property read of a
\* missing key, or of a key assigned undefined).
Null == "null"
Undefined == "undefined"

\* Strings are sequences of characters so that trim() can be computed.
Space == " "
EmptyString == << >>

\* The values a user types into a text input: empty, whitespace only,
\* and text with surrounding whitespace.
TextInputs == { << >>, << " " >>, << " ", "a" >> }

\* The files a user can pick (File objects, named by file name), and the
\* MIME type the browser reports for each (File.type).
UserFiles == { "play.pdf", "draft.pdf", "scan.jpeg", "scan.png", "scan.jpg",
               "notes.txt", "data.bin" }
FileType(file) ==
    CASE file = "play.pdf" -> "application/pdf"
      [] file = "draft.pdf" -> "application/pdf"
      [] file = "scan.jpeg" -> "image/jpeg"
      [] file = "scan.png" -> "image/png"
      [] file = "scan.jpg" -> "image/jpg"
      [] file = "notes.txt" -> "text/plain"
      [] file = "data.bin" -> ""

\* The strings the message generator can resolve with.
Messages == { "bravo", "" }

\* Cap on handleSubmit invocations running at once (only a guard that keeps
\* the model finite: the submit control allows one).
MaxInFlight == 2

TextFields == { "directorName", "playwrightName", "directorPhone", "playTitle" }
ErrorKeys == TextFields \cup { "scriptFile", "authorPermissionFile" }

\* Error messages (App.tsx gives them in Persian; named here by meaning).
MsgScriptNotPdf == "script: only PDF"
MsgPermissionBadType == "permission: PDF or JPG/PNG image only"
MsgRequired(f) ==
    CASE f = "directorName" -> "directorName required"
      [] f = "playwrightName" -> "playwrightName required"
      [] f = "directorPhone" -> "directorPhone required"
      [] f = "playTitle" -> "playTitle required"
      [] f = "scriptFile" -> "scriptFile required"
      [] f = "authorPermissionFile" -> "authorPermissionFile required"

VARIABLES formData, errors, isSubmitting, isSuccess, aiMessage, pending

vars == << formData, errors, isSubmitting, isSuccess, aiMessage, pending >>

(***************************************************************************)
(* Pure helpers                                                            *)
(***************************************************************************)

\* String.prototype.trim: strip leading and trailing whitespace.
RECURSIVE TrimStart(_)
TrimStart(s) ==
    IF s # << >> /\ Head(s) = Space THEN TrimStart(Tail(s)) ELSE s

RECURSIVE TrimEnd(_)
TrimEnd(s) ==
    IF s # << >> /\ s[Len(s)] = Space THEN TrimEnd(SubSeq(s, 1, Len(s) - 1)) ELSE s

\* Variant of Trim: the value is tested without trimming.
Trim_NoTrim(s) == s

Trim(s) == TrimEnd(TrimStart(s))

\* !value.trim() : the empty string is falsy.
IsBlank(s) == Trim(s) = EmptyString

\* useState initial value of formData, also what resetForm stores.
DefaultFormData ==
    [ directorName |-> EmptyString,
      playwrightName |-> EmptyString,
      directorPhone |-> EmptyString,
      playTitle |-> EmptyString,
      scriptFile |-> Null,
      isDirectorPlaywright |-> TRUE,
      authorPermissionFile |-> Null ]

\* The object {} as seen through property reads: every key reads undefined.
NoErrors == [ k \in ErrorKeys |-> Undefined ]

\* Variant of PermissionTypes: the image/jpg alias is left out.
PermissionTypes_NoJpgAlias == { "application/pdf", "image/jpeg", "image/png" }

\* The accepted-type list of handlePermissionChange.
PermissionTypes == { "application/pdf", "image/jpeg", "image/png", "image/jpg" }

\* Variant of ScriptRejected: the script guard tests the permission list.
ScriptRejected_PermissionList(file) ==
    file # Null /\ FileType(file) \notin PermissionTypes

\* Script guard of handleScriptChange: file && file.type !== 'application/pdf'.
ScriptRejected(file) == file # Null /\ FileType(file) # "application/pdf"

\* Permission guard of handlePermissionChange: file && ![...].includes(file.type).
PermissionRejected(file) == file # Null /\ FileType(file) \notin PermissionTypes

\* Variant of Validate: the permission rule ignores isDirectorPlaywright.
Validate_PermissionAlways(fd) ==
    [ k \in ErrorKeys |->
        CASE k \in TextFields ->
               IF IsBlank(fd[k]) THEN MsgRequired(k) ELSE Undefined
          [] k = "scriptFile" ->
               IF fd.scriptFile = Null THEN MsgRequired(k) ELSE Undefined
          [] k = "authorPermissionFile" ->
               IF fd.authorPermissionFile = Null
               THEN MsgRequired(k) ELSE Undefined ]

\* Validation logic of handleSubmit: newErrors, read key by key.
Validate(fd) ==
    [ k \in ErrorKeys |->
        CASE k \in TextFields ->
               IF IsBlank(fd[k]) THEN MsgRequired(k) ELSE Undefined
          [] k = "scriptFile" ->
               IF fd.scriptFile = Null THEN MsgRequired(k) ELSE Undefined
          [] k = "authorPermissionFile" ->
               IF ~fd.isDirectorPlaywright /\ fd.authorPermissionFile = Null
               THEN MsgRequired(k) ELSE Undefined ]

\* Object.keys(newErrors)
Keys(e) == { k \in ErrorKeys : e[k] # Undefined }

\* Variant of SubmitEnabled: the submit button is never disabled.
SubmitEnabled_Always == TRUE

\* The submit button is disabled while isSubmitting.
SubmitEnabled == ~isSubmitting

\* alert() is modal: while it is open no event is dispatched.
AlertOpen == \E i \in 1..Len(pending) : pending[i].stage = "alert"

\* The form (inputs, radio buttons, submit button) is rendered iff !isSuccess.
FormRendered == ~isSuccess /\ ~AlertOpen

RemoveAt(s, i) == SubSeq(s, 1, i - 1) \o SubSeq(s, i + 1, Len(s))

(***************************************************************************)
(* Initial state: the useState defaults                                    *)
(***************************************************************************)
Init ==
    /\ formData = DefaultFormData
    /\ errors = NoErrors
    /\ isSubmitting = FALSE
    /\ isSuccess = FALSE
    /\ aiMessage = ""
    /\ pending = << >>

(***************************************************************************)
(* Event handlers                                                          *)
(***************************************************************************)

\* Variant of handleInputChange: the error is cleared only for a non-blank value.
handleInputChange_ClearsIfFilled(name, value) ==
    /\ FormRendered
    /\ formData' = [formData EXCEPT ![name] = value]
    /\ errors' = IF errors[name] # Undefined /\ ~IsBlank(value)
                 THEN [errors EXCEPT ![name] = Undefined]
                 ELSE errors
    /\ UNCHANGED << isSubmitting, isSuccess, aiMessage, pending >>

handleInputChange(name, value) ==
    /\ FormRendered
    /\ formData' = [formData EXCEPT ![name] = value]
    /\ errors' = IF errors[name] # Undefined
                 THEN [errors EXCEPT ![name] = Undefined]
                 ELSE errors
    /\ UNCHANGED << isSubmitting, isSuccess, aiMessage, pending >>

\* Variant of handleRadioChange: the permission file survives the toggle.
handleRadioChange_KeepsFile(isDirector) ==
    /\ FormRendered
    /\ formData' = [formData EXCEPT !.isDirectorPlaywright = isDirector]
    /\ errors' = IF isDirector
                 THEN [errors EXCEPT !["authorPermissionFile"] = Undefined]
                 ELSE errors
    /\ UNCHANGED << isSubmitting, isSuccess, aiMessage, pending >>

\* Variant of handleRadioChange: every toggle drops the permission file.
handleRadioChange_AlwaysClears(isDirector) ==
    /\ FormRendered
    /\ formData' = [formData EXCEPT
                      !.isDirectorPlaywright = isDirector,
                      !.authorPermissionFile = Null]
    /\ errors' = IF isDirector
                 THEN [errors EXCEPT !["authorPermissionFile"] = Undefined]
                 ELSE errors
    /\ UNCHANGED << isSubmitting, isSuccess, aiMessage, pending >>

handleRadioChange(isDirector) ==
    /\ FormRendered
    /\ formData' = [formData EXCEPT
                      !.isDirectorPlaywright = isDirector,
                      !.authorPermissionFile =
                          IF isDirector THEN Null ELSE formData.authorPermissionFile]
    /\ errors' = IF isDirector
                 THEN [errors EXCEPT !["authorPermissionFile"] = Undefined]
                 ELSE errors
    /\ UNCHANGED << isSubmitting, isSuccess, aiMessage, pending >>

\* Variant of handleScriptChange: the early return after the error is missing.
handleScriptChange_NoReturn(file) ==
    /\ FormRendered
    /\ formData' = [formData EXCEPT !.scriptFile = file]
    /\ errors' = IF ScriptRejected(file)
                 THEN [errors EXCEPT !["scriptFile"] = MsgScriptNotPdf]
                 ELSE [errors EXCEPT !["scriptFile"] = Undefined]
    /\ UNCHANGED << isSubmitting, isSuccess, aiMessage, pending >>

handleScriptChange(file) ==
    /\ FormRendered
    /\ IF ScriptRejected(file)
       THEN /\ errors' = [errors EXCEPT !["scriptFile"] = MsgScriptNotPdf]
            /\ UNCHANGED formData
       ELSE /\ formData' = [formData EXCEPT !.scriptFile = file]
            /\ errors' = [errors EXCEPT !["scriptFile"] = Undefined]
    /\ UNCHANGED << isSubmitting, isSuccess, aiMessage, pending >>

\* Variant of handlePermissionChange: an accepted file leaves the error standing.
handlePermissionChange_KeepsError(file) ==
    /\ FormRendered
    /\ ~formData.isDirectorPlaywright
    /\ IF PermissionRejected(file)
       THEN /\ errors' = [errors EXCEPT !["authorPermissionFile"] = MsgPermissionBadType]
            /\ UNCHANGED formData
       ELSE /\ formData' = [formData EXCEPT !.authorPermissionFile = file]
            /\ UNCHANGED errors
    /\ UNCHANGED << isSubmitting, isSuccess, aiMessage, pending >>

\* Variant of handlePermissionChange: the permission input is always rendered.
handlePermissionChange_AlwaysRendered(file) ==
    /\ FormRendered
    /\ IF PermissionRejected(file)
       THEN /\ errors' = [errors EXCEPT !["authorPermissionFile"] = MsgPermissionBadType]
            /\ UNCHANGED formData
       ELSE /\ formData' = [formData EXCEPT !.authorPermissionFile = file]
            /\ errors' = [errors EXCEPT !["authorPermissionFile"] = Undefined]
    /\ UNCHANGED << isSubmitting, isSuccess, aiMessage, pending >>

\* The permission input is rendered only while !formData.isDirectorPlaywright.
handlePermissionChange(file) ==
    /\ FormRendered
    /\ ~formData.isDirectorPlaywright
    /\ IF PermissionRejected(file)
       THEN /\ errors' = [errors EXCEPT !["authorPermissionFile"] = MsgPermissionBadType]
            /\ UNCHANGED formData
       ELSE /\ formData' = [formData EXCEPT !.authorPermissionFile = file]
            /\ errors' = [errors EXCEPT !["authorPermissionFile"] = Undefined]
    /\ UNCHANGED << isSubmitting, isSuccess, aiMessage, pending >>

\* Variant of handleSubmit: the return after setErrors(newErrors) is missing.
handleSubmit_NoReturn ==
    /\ FormRendered
    /\ SubmitEnabled
    /\ Len(pending) < MaxInFlight
    /\ LET newErrors == Validate(formData) IN
         /\ errors' = IF Keys(newErrors) # {} THEN newErrors ELSE errors
         /\ isSubmitting' = TRUE
         /\ pending' = Append(pending,
                [ stage |-> "delay", closure |-> formData, args |-> << >> ])
         /\ UNCHANGED << formData, isSuccess, aiMessage >>

\* handleSubmit up to its first await.
handleSubmit ==
    /\ FormRendered
    /\ SubmitEnabled
    /\ Len(pending) < MaxInFlight
    /\ LET newErrors == Validate(formData) IN
       IF Keys(newErrors) # {}
       THEN /\ errors' = newErrors
            /\ UNCHANGED << formData, isSubmitting, isSuccess, aiMessage, pending >>
       ELSE /\ isSubmitting' = TRUE
            /\ pending' = Append(pending,
                   [ stage |-> "delay", closure |-> formData, args |-> << >> ])
            /\ UNCHANGED << formData, errors, isSuccess, aiMessage >>

\* Variant of DelayElapsed: the call reads the current state, not the closure.
DelayElapsed_ReadsState(i) ==
    /\ ~AlertOpen
    /\ pending[i].stage = "delay"
    /\ pending' = [pending EXCEPT
                     ![i].stage = "generate",
                     ![i].args = << formData.directorName, formData.playTitle >>]
    /\ UNCHANGED << formData, errors, isSubmitting, isSuccess, aiMessage >>

\* The 1500 ms timer fires: generateWelcomeMessage is called with the
\* directorName and playTitle of the formData the handler closed over.
DelayElapsed(i) ==
    /\ ~AlertOpen
    /\ pending[i].stage = "delay"
    /\ pending' = [pending EXCEPT
                     ![i].stage = "generate",
                     ![i].args = << pending[i].closure.directorName,
                                    pending[i].closure.playTitle >>]
    /\ UNCHANGED << formData, errors, isSubmitting, isSuccess, aiMessage >>

\* Variant of GeneratorResolves: setAiMessage(message) is missing.
GeneratorResolves_NoMessage(i, message) ==
    /\ ~AlertOpen
    /\ pending[i].stage = "generate"
    /\ isSuccess' = TRUE
    /\ isSubmitting' = FALSE
    /\ pending' = RemoveAt(pending, i)
    /\ UNCHANGED << formData, errors, aiMessage >>

\* Variant of GeneratorResolves: the finally block is missing.
GeneratorResolves_NoFinally(i, message) ==
    /\ ~AlertOpen
    /\ pending[i].stage = "generate"
    /\ aiMessage' = message
    /\ isSuccess' = TRUE
    /\ pending' = RemoveAt(pending, i)
    /\ UNCHANGED << formData, errors, isSubmitting >>

\* The generator's promise resolves: setAiMessage, setIsSuccess(true), finally.
GeneratorResolves(i, message) ==
    /\ ~AlertOpen
    /\ pending[i].stage = "generate"
    /\ aiMessage' = message
    /\ isSuccess' = TRUE
    /\ isSubmitting' = FALSE
    /\ pending' = RemoveAt(pending, i)
    /\ UNCHANGED << formData, errors >>

\* Variant of GeneratorRejects: a rejection waits and calls the generator again.
GeneratorRejects_Retries(i) ==
    /\ ~AlertOpen
    /\ pending[i].stage = "generate"
    /\ pending' = [pending EXCEPT ![i].stage = "delay"]
    /\ UNCHANGED << formData, errors, isSubmitting, isSuccess, aiMessage >>

\* The generator's promise rejects: the catch block opens the alert.
GeneratorRejects(i) ==
    /\ ~AlertOpen
    /\ pending[i].stage = "generate"
    /\ pending' = [pending EXCEPT ![i].stage = "alert"]
    /\ UNCHANGED << formData, errors, isSubmitting, isSuccess, aiMessage >>

\* Variant of AlertDismissed: setIsSubmitting(false) sits in the try block,
\* not in finally, so the failure path skips it.
AlertDismissed_NoFinally(i) ==
    /\ pending[i].stage = "alert"
    /\ pending' = RemoveAt(pending, i)
    /\ UNCHANGED << formData, errors, isSubmitting, isSuccess, aiMessage >>

\* The user dismisses the alert: the finally block runs.
AlertDismissed(i) ==
    /\ pending[i].stage = "alert"
    /\ isSubmitting' = FALSE
    /\ pending' = RemoveAt(pending, i)
    /\ UNCHANGED << formData, errors, isSuccess, aiMessage >>

\* Variant of resetForm: setErrors({}) is missing.
resetForm_KeepsErrors ==
    /\ isSuccess
    /\ ~AlertOpen
    /\ formData' = DefaultFormData
    /\ isSuccess' = FALSE
    /\ aiMessage' = ""
    /\ UNCHANGED << errors, isSubmitting, pending >>

\* The reset button is rendered only in the success view.
resetForm ==
    /\ isSuccess
    /\ ~AlertOpen
    /\ formData' = DefaultFormData
    /\ isSuccess' = FALSE
    /\ aiMessage' = ""
    /\ errors' = NoErrors
    /\ UNCHANGED << isSubmitting, pending >>

Next ==
    \/ \E name \in TextFields, value \in TextInputs : handleInputChange(name, value)
    \/ \E isDirector \in BOOLEAN : handleRadioChange(isDirector)
    \/ \E file \in UserFiles \cup { Null } : handleScriptChange(file)
    \/ \E file \in UserFiles \cup { Null } : handlePermissionChange(file)
    \/ handleSubmit
    \/ \E i \in 1..Len(pending) : DelayElapsed(i)
    \/ \E i \in 1..Len(pending), message \in Messages : GeneratorResolves(i, message)
    \/ \E i \in 1..Len(pending) : GeneratorRejects(i)
    \/ \E i \in 1..Len(pending) : AlertDismissed(i)
    \/ resetForm

Spec == Init /\ [][Next]_vars

\* The generator call of an invocation settles, either way.
GeneratorSettles ==
    \E i \in 1..Len(pending) :
        \/ \E message \in Messages : GeneratorResolves(i, message)
        \/ GeneratorRejects(i)

\* The behaviours in which the timer fires and the generator call settles.
\* Nothing is assumed of the user: no event need ever happen, and an open
\* alert need never be dismissed.
LiveSpec ==
    /\ Spec
    /\ WF_vars(\E i \in 1..Len(pending) : DelayElapsed(i))
    /\ WF_vars(GeneratorSettles)

(***************************************************************************)
(* Properties                                                              *)
(***************************************************************************)

\* A text value is blank: empty, or nothing but whitespace.
Blank(s) == \A i \in 1..Len(s) : s[i] = Space

\* The keys the validation rules of the specification flag for a form state.
MissingKeys(fd) ==
    { k \in TextFields : Blank(fd[k]) }
      \cup (IF fd.scriptFile = Null THEN { "scriptFile" } ELSE {})
      \cup (IF ~fd.isDirectorPlaywright /\ fd.authorPermissionFile = Null
            THEN { "authorPermissionFile" } ELSE {})

\* The orchestrator is Idle: nothing in flight, no success view.
Idle == ~isSubmitting /\ ~isSuccess /\ pending = << >>

\* C1: a submit leaves a required-text-field error exactly on the text
\* fields that are blank (empty or whitespace only), on all of them at once,
\* and when any text field is blank no submission starts.
C1_TextFieldErrors ==
    [][handleSubmit =>
         /\ \A k \in TextFields :
              /\ Blank(formData[k]) => errors'[k] = MsgRequired(k)
              /\ ~Blank(formData[k]) => errors'[k] = Undefined
         /\ (\E k \in TextFields : Blank(formData[k])) =>
              /\ pending' = pending
              /\ ~isSubmitting'
              /\ ~isSuccess']_vars

\* A submit has flagged the two blank names (one empty, one whitespace only)
\* and neither of the two filled fields.
C1_Witness ==
    /\ formData.directorName = << " " >>
    /\ formData.playwrightName = << >>
    /\ errors["directorName"] = MsgRequired("directorName")
    /\ errors["playwrightName"] = MsgRequired("playwrightName")
    /\ ~Blank(formData.directorPhone) /\ errors["directorPhone"] = Undefined
    /\ ~Blank(formData.playTitle) /\ errors["playTitle"] = Undefined
    /\ Idle

\* C2: a submit flags authorPermissionFile when the director is not the
\* playwright and no permission file is stored, and leaves it unflagged
\* whenever the director is the playwright.
C2_ConditionalPermission ==
    [][handleSubmit =>
         /\ (~formData.isDirectorPlaywright /\ formData.authorPermissionFile = Null)
              => errors'["authorPermissionFile"] = MsgRequired("authorPermissionFile")
         /\ formData.isDirectorPlaywright
              => errors'["authorPermissionFile"] = Undefined]_vars

\* A submit has flagged the missing permission file as the only error.
C2_Witness ==
    /\ ~formData.isDirectorPlaywright
    /\ formData.authorPermissionFile = Null
    /\ errors["authorPermissionFile"] = MsgRequired("authorPermissionFile")
    /\ MissingKeys(formData) = { "authorPermissionFile" }
    /\ Idle

\* C3: a submit on which validation finds an error is aborted: the
\* orchestrator stays Idle, no handler invocation (hence no delay and no
\* generator call) is started, formData is unchanged and errors becomes the
\* validator's output.
C3_InvalidSubmitAborts ==
    [][(handleSubmit /\ MissingKeys(formData) # {}) =>
         /\ ~isSubmitting' /\ ~isSuccess'
         /\ pending' = pending /\ pending' = << >>
         /\ aiMessage' = aiMessage
         /\ formData' = formData
         /\ errors' = [ k \in ErrorKeys |->
                          IF k \in MissingKeys(formData)
                          THEN MsgRequired(k) ELSE Undefined ]]_vars

\* After an aborted submit: the error map is exactly the validator's output
\* for a form that lacks the play title and the permission file.
C3_Witness ==
    /\ Idle
    /\ ~formData.isDirectorPlaywright
    /\ formData.scriptFile = "play.pdf"
    /\ \A k \in ErrorKeys :
         errors[k] = IF k \in MissingKeys(formData) THEN MsgRequired(k) ELSE Undefined
    /\ MissingKeys(formData) = { "playTitle", "authorPermissionFile" }

\* C4: scriptFile is always null or a file of MIME type application/pdf.
C4_ScriptIsPdf ==
    formData.scriptFile = Null \/ FileType(formData.scriptFile) = "application/pdf"

\* A PDF is stored and a later non-PDF selection was refused.
C4_Witness ==
    /\ formData.scriptFile = "draft.pdf"
    /\ errors["scriptFile"] = MsgScriptNotPdf
    /\ isSubmitting

\* C5: selecting a script file whose MIME type is not application/pdf sets
\* the scriptFile error and changes no form field.
C5_RejectedScriptFrame ==
    [][\A file \in UserFiles :
         (FileType(file) # "application/pdf" /\ handleScriptChange(file)) =>
           /\ errors'["scriptFile"] = MsgScriptNotPdf
           /\ formData' = formData]_vars

\* The type error stands next to a stored script and a stored permission file.
C5_Witness ==
    /\ errors["scriptFile"] = MsgScriptNotPdf
    /\ formData.scriptFile = "play.pdf"
    /\ formData.authorPermissionFile = "scan.png"
    /\ ~Blank(formData.playTitle)
    /\ ENABLED handleScriptChange("notes.txt")

\* The MIME types the specification accepts for the permission file, after
\* the alias image/jpg is read as image/jpeg.
NormalizedType(t) == IF t = "image/jpg" THEN "image/jpeg" ELSE t
SpecPermissionTypes == { "application/pdf", "image/jpeg", "image/png" }

\* C6: a permission-file selection is refused (error set, stored file
\* unchanged) exactly when its type, image/jpg read as image/jpeg, is not
\* application/pdf, image/jpeg or image/png; any other file is stored.
C6_PermissionGuard ==
    [][\A file \in UserFiles :
         handlePermissionChange(file) =>
           IF NormalizedType(FileType(file)) \in SpecPermissionTypes
           THEN formData'.authorPermissionFile = file
           ELSE /\ errors'["authorPermissionFile"] = MsgPermissionBadType
                /\ formData'.authorPermissionFile = formData.authorPermissionFile]_vars

\* An image/jpg file is stored and a later selection was refused.
C6_Witness ==
    /\ formData.authorPermissionFile = "scan.jpg"
    /\ errors["authorPermissionFile"] = MsgPermissionBadType
    /\ ~formData.isDirectorPlaywright

\* C7: in both slots, selecting a file of an accepted type stores the file
\* and clears the slot's error; the other slot, the text fields, the flag
\* and every other error entry are unchanged.
C7_AcceptedFileFrame ==
    [][\A file \in UserFiles :
         /\ (FileType(file) = "application/pdf" /\ handleScriptChange(file)) =>
              /\ formData' = [formData EXCEPT !.scriptFile = file]
              /\ errors' = [errors EXCEPT !["scriptFile"] = Undefined]
         /\ (FileType(file) \in { "application/pdf", "image/jpeg", "image/png", "image/jpg" }
               /\ handlePermissionChange(file)) =>
              /\ formData' = [formData EXCEPT !.authorPermissionFile = file]
              /\ errors' = [errors EXCEPT !["authorPermissionFile"] = Undefined]]_vars

\* Both slots hold an accepted file with no error of their own, while the
\* errors an earlier submit left on two text fields are still there.
C7_Witness ==
    /\ formData.scriptFile = "draft.pdf" /\ errors["scriptFile"] = Undefined
    /\ formData.authorPermissionFile = "scan.jpeg"
    /\ errors["authorPermissionFile"] = Undefined
    /\ errors["directorName"] = MsgRequired("directorName")
    /\ errors["playTitle"] = MsgRequired("playTitle")

\* C8: handleRadioChange(true) always ends with authorPermissionFile null
\* and no authorPermissionFile error.
C8_ToggleYesClears ==
    [][handleRadioChange(TRUE) =>
         /\ formData'.isDirectorPlaywright
         /\ formData'.authorPermissionFile = Null
         /\ errors'["authorPermissionFile"] = Undefined]_vars

\* The toggle to yes is about to act on a stored file and a standing error.
C8_Witness ==
    /\ ~formData.isDirectorPlaywright
    /\ formData.authorPermissionFile = "scan.png"
    /\ errors["authorPermissionFile"] = MsgPermissionBadType
    /\ ENABLED handleRadioChange(TRUE)

\* The fields C9 names: the four text fields and the two files.
EnteredFields == TextFields \cup { "scriptFile", "authorPermissionFile" }

\* C9: when the generator rejects, a failure notice is raised and the
\* orchestrator returns to Idle with no stored message, the four text fields
\* and both files holding the values they had when the submission started.
C9_FormAsAtSubmit ==
    [][\A i \in 1..Len(pending) :
         /\ GeneratorRejects(i) => AlertOpen'
         /\ AlertDismissed(i) =>
              /\ ~isSubmitting' /\ ~isSuccess' /\ pending' = << >>
              /\ aiMessage' = ""
              /\ \A f \in EnteredFields :
                   formData'[f] = pending[i].closure[f]]_vars

\* C10: at most one handleSubmit invocation is in flight, it is in flight
\* exactly while isSubmitting, and a submit is then impossible.
C10_SingleSubmission ==
    /\ Len(pending) <= 1
    /\ isSubmitting <=> pending # << >>
    /\ isSubmitting => ~ENABLED handleSubmit

\* A submission is in flight past its delay while the form is valid again.
C10_Witness ==
    /\ isSubmitting
    /\ pending[1].stage = "generate"
    /\ MissingKeys(formData) = {}
    /\ FormRendered

\* C11: a submit of a form with four non-blank text fields, a PDF script and
\* isDirectorPlaywright = true passes validation and enters Submitting; when
\* the generator resolves, the state is Success and the stored message is
\* the string the generator returned.
C11_ValidSubmitSucceeds ==
    [][/\ (/\ handleSubmit
           /\ \A k \in TextFields : ~Blank(formData[k])
           /\ formData.scriptFile # Null
           /\ FileType(formData.scriptFile) = "application/pdf"
           /\ formData.isDirectorPlaywright) =>
             /\ isSubmitting' /\ ~isSuccess'
             /\ Len(pending') = 1 /\ pending'[1].stage = "delay"
             /\ errors' = errors /\ formData' = formData
       /\ \A i \in 1..Len(pending), message \in Messages :
            GeneratorResolves(i, message) =>
              /\ isSuccess' /\ ~isSubmitting' /\ pending' = << >>
              /\ aiMessage' = message]_vars

\* Scenario 1 of the specification at its end: the success view with the
\* generated message over the form that was submitted.
C11_Witness ==
    /\ isSuccess /\ ~isSubmitting
    /\ aiMessage = "bravo"
    /\ formData.isDirectorPlaywright
    /\ formData.scriptFile = "play.pdf"
    /\ \A k \in TextFields : formData[k] = << " ", "a" >>
    /\ errors = NoErrors

\* C12: reset is possible only in Success, and it ends in Idle with every
\* form field at its default, no stored message and an empty error map.
C12_ResetToDefaults ==
    [][/\ (ENABLED resetForm) => isSuccess
       /\ resetForm =>
            /\ formData'.directorName = << >> /\ formData'.playwrightName = << >>
            /\ formData'.directorPhone = << >> /\ formData'.playTitle = << >>
            /\ formData'.scriptFile = Null /\ formData'.authorPermissionFile = Null
            /\ formData'.isDirectorPlaywright
            /\ aiMessage' = ""
            /\ \A k \in ErrorKeys : errors'[k] = Undefined
            /\ ~isSubmitting' /\ ~isSuccess' /\ pending' = << >>]_vars

\* Reset is about to act on a success view whose form holds two files, a
\* message and a standing script-type error.
C12_Witness ==
    /\ isSuccess
    /\ aiMessage = "bravo"
    /\ errors["scriptFile"] = MsgScriptNotPdf
    /\ formData.authorPermissionFile = "scan.jpeg"
    /\ ~formData.isDirectorPlaywright
    /\ ENABLED resetForm

\* Position of the submission in flight: none, waiting for the delay, inside
\* the generator call (entered exactly when the call is made), or at the alert.
Stage == IF pending = << >> THEN "none" ELSE pending[1].stage

\* C13: a submission calls the generator exactly once and never retries:
\* it starts at the delay only by a submit, goes from the delay to the one
\* generator call, and from the call either to Success or to the failure
\* notice and then to Idle; it never returns to the delay or to the call.
C13_NoRetry ==
    [][/\ Len(pending) <= 1 /\ Len(pending') <= 1
       /\ << Stage, Stage' >> \in
            { << "none", "none" >>, << "none", "delay" >>,
              << "delay", "delay" >>, << "delay", "generate" >>,
              << "generate", "generate" >>, << "generate", "none" >>,
              << "generate", "alert" >>, << "alert", "none" >> }
       /\ (Stage = "none" /\ Stage' = "delay") => handleSubmit
       /\ (Stage = "generate" /\ Stage' = "none") => isSuccess'
       /\ (Stage = "alert" /\ Stage' = "none") => (~isSuccess' /\ ~isSubmitting')]_vars

\* The one generator call of a submission was rejected: the notice is open.
C13_Witness ==
    /\ Stage = "alert"
    /\ pending[1].args = << << " ", "a" >>, << " ", "a" >> >>
    /\ formData = pending[1].closure
    /\ ~isSuccess

\* C14: a text change stores the new value and clears the error entry of
\* that field only, also when the new value is blank; every other form
\* value and error entry is unchanged.
C14_TextChangeFrame ==
    [][\A name \in TextFields, value \in TextInputs :
         handleInputChange(name, value) =>
           /\ formData'[name] = value
           /\ errors'[name] = Undefined
           /\ \A k \in ErrorKeys \ { name } : errors'[k] = errors[k]
           /\ \A f \in (DOMAIN formData) \ { name } : formData'[f] = formData[f]
           /\ UNCHANGED << isSubmitting, isSuccess, aiMessage, pending >>]_vars

\* After a submit flagged every field, directorName was changed to a value
\* that is still blank: its error is gone, the other five are still there.
C14_Witness ==
    /\ formData.directorName = << " " >>
    /\ errors["directorName"] = Undefined
    /\ \A k \in ErrorKeys \ { "directorName" } : errors[k] = MsgRequired(k)
    /\ formData.playwrightName = << >>

\* C15: handleRadioChange(false) changes the flag only: the permission file
\* keeps its value and no error entry is added or removed.
C15_ToggleNoFrame ==
    [][handleRadioChange(FALSE) =>
         /\ ~formData'.isDirectorPlaywright
         /\ formData'.authorPermissionFile = formData.authorPermissionFile
         /\ \A f \in TextFields \cup { "scriptFile" } : formData'[f] = formData[f]
         /\ errors' = errors
         /\ UNCHANGED << isSubmitting, isSuccess, aiMessage, pending >>]_vars

\* The toggle to no is about to act on a stored permission file and on
\* standing errors.
C15_Witness ==
    /\ ~formData.isDirectorPlaywright
    /\ formData.authorPermissionFile = "draft.pdf"
    /\ errors["scriptFile"] = MsgRequired("scriptFile")
    /\ errors["authorPermissionFile"] = MsgPermissionBadType
    /\ ENABLED handleRadioChange(FALSE)

\* C16 as stated: given that the delay elapses and the generator call
\* settles, a submission in Submitting always ends in Success or Idle with
\* isSubmitting false.
C16_AlwaysFinishes ==
    isSubmitting ~> (~isSubmitting /\ (isSuccess \/ Idle))

\* C16 amended: a submission in Submitting cannot be cancelled: only the
\* resolution of the generator call or the dismissal of the failure notice
\* clears isSubmitting, and until then the invocation stays in flight. Given
\* that the delay elapses and the call settles, whatever the user does the
\* submission reaches Success with isSubmitting false, or the failure notice
\* opens with isSubmitting still true; dismissing the notice then gives Idle.
C16_SubmissionFinishes ==
    /\ [][(isSubmitting /\ ~isSubmitting') =>
            \E i \in 1..Len(pending) :
                \/ AlertDismissed(i)
                \/ \E message \in Messages : GeneratorResolves(i, message)]_vars
    /\ [][(isSubmitting /\ isSubmitting') => (pending' # << >> /\ ~isSuccess')]_vars
    /\ [][AlertOpen => (isSubmitting /\ (AlertOpen' \/ Idle'))]_vars
    /\ [][\A i \in 1..Len(pending) : AlertDismissed(i) => Idle']_vars
    /\ isSubmitting ~> ((~isSubmitting /\ isSuccess) \/ (isSubmitting /\ AlertOpen))

\* The generator call of a submission was rejected after the user emptied
\* the form and switched the flag: the notice is open, isSubmitting is true.
C16_Witness ==
    /\ isSubmitting
    /\ AlertOpen
    /\ \A k \in TextFields : formData[k] = << >>
    /\ formData.scriptFile = Null
    /\ ~formData.isDirectorPlaywright

\* C17: the generator is called with the directorName and playTitle that
\* passed validation at the submit, also when the user changes those fields
\* during the delay: a passing submit records the form as it is then, the
\* record never changes, and the call takes its two arguments from it.
C17_CallUsesSubmittedValues ==
    [][/\ (Stage = "none" /\ Stage' = "delay") =>
            /\ pending'[1].closure = formData
            /\ ~Blank(formData.directorName) /\ ~Blank(formData.playTitle)
       /\ (Stage # "none" /\ Stage' # "none") =>
            pending'[1].closure = pending[1].closure
       /\ (Stage = "delay" /\ Stage' = "generate") =>
            pending'[1].args = << pending[1].closure.directorName,
                                  pending[1].closure.playTitle >>
       /\ (Stage = "generate" /\ Stage' # "none") =>
            pending'[1].args = pending[1].args]_vars

\* The call is under way with the submitted name and title, while the form
\* now holds an empty name and a whitespace-only title.
C17_Witness ==
    /\ Stage = "generate"
    /\ pending[1].args = << << " ", "a" >>, << " ", "a" >> >>
    /\ formData.directorName = << >>
    /\ formData.playTitle = << " " >>

\* C18: in every Success state the form data held in state satisfies all
\* validator rules.
C18_SuccessFormValid ==
    isSuccess => MissingKeys(formData) = {}

\* C19: isSubmitting and isSuccess are never both true, and nothing is in
\* flight in Success: the orchestrator is in exactly one of Idle,
\* Submitting and Success.
C19_OneOrchestratorState ==
    /\ ~(isSubmitting /\ isSuccess)
    /\ isSuccess => pending = << >>
    /\ Cardinality({ s \in { "Idle", "Submitting", "Success" } :
                       \/ s = "Idle" /\ Idle
                       \/ s = "Submitting" /\ isSubmitting
                       \/ s = "Success" /\ isSuccess }) = 1

\* Success was reached from Submitting with an empty generated message.
C19_Witness ==
    /\ isSuccess /\ ~isSubmitting
    /\ aiMessage = ""
    /\ MissingKeys(formData) = {}
    /\ formData.authorPermissionFile = "scan.png"

\* C20: whenever isDirectorPlaywright is true, authorPermissionFile is null.
C20_NoStalePermission ==
    formData.isDirectorPlaywright => formData.authorPermissionFile = Null

\* A form submitted with a permission file was switched to yes while the
\* submission was in flight: the stored file is gone.
C20_Witness ==
    /\ isSubmitting /\ Stage = "delay"
    /\ pending[1].closure.authorPermissionFile = "scan.jpg"
    /\ formData.isDirectorPlaywright
    /\ formData.authorPermissionFile = Null

\* C21: while the orchestrator is in Submitting or Success, no field has an
\* error set in the error map.
C21_NoErrorWhileSubmitted ==
    (isSubmitting \/ isSuccess) => \A k \in ErrorKeys : errors[k] = Undefined

====
